---- MODULE Spec2Model ----
(***************************************************************************)
(* Model of src/Main.py: class HuffmanCoding (Huffman coding of a text     *)
(* file with a heapq min-heap).                                            *)
(*                                                                         *)
(* Python strings are sequences of one-character strings; a byte is an    *)
(* integer 0..255; a HeapNode is a record of the node store `nodes`,      *)
(* referred to by its index (None is 0); a dict is a sequence of entries  *)
(* in insertion order (frequency) or a function on its keys (codes,       *)
(* reverse_mapping).                                                       *)
(***************************************************************************)
EXTENDS Integers, Sequences, FiniteSets, TLC

\* ------------------------------------------------------------------ bounds
\* longest file content of the compress run
MaxLen == 5
\* the interpreter's recursion limit, counted in frames above make_codes
RecursionLimit == 4
\* longest encoded bit string handed to pad_encoded_text
MaxBits == 9
\* longest body (after the header) handed to remove_padding
MaxBody == 5
\* longest code of a code table handed to decode_text
MaxCode == 2

\* ----------------------------------------------------------------- values
Letters == {"a", "b", "c"}
Whitespace == {" "}
Chars == Letters \cup Whitespace
Bits == {"0", "1"}

\* None, as a node reference and as a HeapNode.char
None == 0
NoChar == "None"
\* None where a string is expected
NoneText == <<NoChar>>

\* all sequences over S of length lo..hi
SeqsBetween(S, lo, hi) == UNION {[1..n -> S] : n \in lo..hi}

\* the empty dict
EmptyDict == [x \in {} |-> 0]

\* s with x appended n times
RECURSIVE Repeat(_, _)
Repeat(x, n) == IF n <= 0 THEN <<>> ELSE <<x>> \o Repeat(x, n - 1)

\* Python's s[:k] and s[k:] for 0 <= k
Take(s, k) == SubSeq(s, 1, IF k < Len(s) THEN k ELSE Len(s))
Drop(s, k) == SubSeq(s, k + 1, Len(s))

\* --------------------------------------------------------------- variables
VARIABLES
    pc,                 \* position in the running method
    error,              \* the exception that ended the run, or "none"
    file_text,          \* content of the file at self.path
    output,             \* the .bin file: whether it exists, and its bytes
    text,               \* compress: text after rstrip
    frequency,          \* compress: the frequency dict, in insertion order
    nodes,              \* every HeapNode created so far
    heap,               \* self.heap: node references, heapq layout
    codes,              \* self.codes
    reverse_mapping,    \* self.reverse_mapping
    stack,              \* frames of make_codes_helper, innermost last
    visits,             \* how often make_codes_helper was entered per node
    encoded_text,       \* argument / result bit string
    padded_encoded_text,\* result of pad_encoded_text
    b,                  \* result of get_byte_array
    bit_string,         \* decompress: the string rebuilt from the bytes
    decoded_text,       \* result of decode_text (NoneText: None)
    current_code,       \* decode_text: the accumulator when it returned
    consumed            \* decode_text: bits taken from encoded_text

vars == <<pc, error, file_text, output, text, frequency, nodes, heap, codes,
          reverse_mapping, stack, visits, encoded_text, padded_encoded_text,
          b, bit_string, decoded_text, current_code, consumed>>

compressVars == <<file_text, output, text, frequency, nodes, heap, codes,
                  reverse_mapping, stack, visits>>
codecVars == <<encoded_text, padded_encoded_text, b, bit_string,
               decoded_text, current_code, consumed>>

\* ------------------------------------------------------------ HeapNode
\* HeapNode.__init__
HeapNode(char, freq) == [char |-> char, freq |-> freq, left |-> None, right |-> None]

\* HeapNode.__lt__, on node references into the store ns
Lt(ns, x, y) == ns[x].freq < ns[y].freq

\* ---------------------------------------------------------------- heapq
\* heapq._siftdown(heap, startpos, pos) with newitem held aside; positions
\* are Python's (0-based), h[p + 1] is heap[p]
RECURSIVE SiftDownFrom(_, _, _, _, _)
SiftDownFrom(ns, h, startpos, pos, newitem) ==
    IF pos > startpos
    THEN LET parentpos == (pos - 1) \div 2
             parent == h[parentpos + 1]
         IN  IF Lt(ns, newitem, parent)
             THEN SiftDownFrom(ns, [h EXCEPT ![pos + 1] = parent], startpos, parentpos, newitem)
             ELSE [h EXCEPT ![pos + 1] = newitem]
    ELSE [h EXCEPT ![pos + 1] = newitem]

SiftDown(ns, h, startpos, pos) == SiftDownFrom(ns, h, startpos, pos, h[pos + 1])

\* the loop of heapq._siftup: bubble the smaller child up until a leaf
RECURSIVE SiftUpLoop(_, _, _)
SiftUpLoop(ns, h, pos) ==
    LET endpos == Len(h)
        childpos == 2 * pos + 1
        rightpos == childpos + 1
        pick == IF rightpos < endpos /\ ~Lt(ns, h[childpos + 1], h[rightpos + 1])
                THEN rightpos ELSE childpos
    IN  IF childpos < endpos
        THEN SiftUpLoop(ns, [h EXCEPT ![pos + 1] = h[pick + 1]], pick)
        ELSE [h |-> h, pos |-> pos]

\* heapq._siftup(heap, pos)
SiftUp(ns, h, pos) ==
    LET newitem == h[pos + 1]
        r == SiftUpLoop(ns, h, pos)
    IN  SiftDown(ns, [r.h EXCEPT ![r.pos + 1] = newitem], pos, r.pos)

\* heapq.heappush(heap, item)
HeapPush(ns, h, item) == SiftDown(ns, Append(h, item), 0, Len(h))

\* heapq.heappop(heap), for a non-empty heap: the item and the heap left
HeapPop(ns, h) ==
    LET lastelt == h[Len(h)]
        rest == SubSeq(h, 1, Len(h) - 1)
    IN  IF rest /= <<>>
        THEN [item |-> h[1], heap |-> SiftUp(ns, [rest EXCEPT ![1] = lastelt], 0)]
        ELSE [item |-> lastelt, heap |-> rest]

\* ------------------------------------------------------------- compress
\* str.rstrip(): trailing whitespace removed
RECURSIVE RStrip(_)
RStrip(s) ==
    IF s /= <<>> /\ s[Len(s)] \in Whitespace
    THEN RStrip(SubSeq(s, 1, Len(s) - 1))
    ELSE s

\* frequency[ch] += 1, the entry created with 0 when absent
Count(freq, ch) ==
    IF \E i \in 1..Len(freq) : freq[i].ch = ch
    THEN [i \in 1..Len(freq) |->
            IF freq[i].ch = ch THEN [freq[i] EXCEPT !.n = @ + 1] ELSE freq[i]]
    ELSE Append(freq, [ch |-> ch, n |-> 1])

\* make_frequency_dict(text), having counted t[1..k]
RECURSIVE FrequencyUpTo(_, _)
FrequencyUpTo(t, k) ==
    IF k = 0 THEN <<>> ELSE Count(FrequencyUpTo(t, k - 1), t[k])

make_frequency_dict(t) == FrequencyUpTo(t, Len(t))

\* ---------------------------------------------------------- the codec
\* dict[key] = value
DictSet(d, key, value) ==
    [k \in DOMAIN d \cup {key} |-> IF k = key THEN value ELSE d[k]]

\* get_encoded_text(text) with self.codes = cs, having encoded t[1..k]
RECURSIVE EncodedUpTo(_, _, _)
EncodedUpTo(cs, t, k) ==
    IF k = 0 THEN <<>> ELSE EncodedUpTo(cs, t, k - 1) \o cs[t[k]]

get_encoded_text(cs, t) == EncodedUpTo(cs, t, Len(t))

\* pad_encoded_text, line 117
ExtraPadding(encoded) == 8 - (Len(encoded) % 8)

\* '{0:08b}'.format(n): n in binary (bin without its prefix)
RECURSIVE Binary(_)
Binary(n) ==
    IF n < 2 THEN <<IF n = 1 THEN "1" ELSE "0">>
    ELSE Binary(n \div 2) \o <<IF n % 2 = 1 THEN "1" ELSE "0">>

Format08b(n) == Repeat("0", 8 - Len(Binary(n))) \o Binary(n)

\* pad_encoded_text(encoded_text)
pad_encoded_text(encoded) ==
    Format08b(ExtraPadding(encoded)) \o encoded \o Repeat("0", ExtraPadding(encoded))

\* int(s, 2) for a string of binary digits
RECURSIVE IntBase2(_)
IntBase2(s) ==
    IF s = <<>> THEN 0
    ELSE 2 * IntBase2(SubSeq(s, 1, Len(s) - 1)) + (IF s[Len(s)] = "1" THEN 1 ELSE 0)

\* get_byte_array(padded_encoded_text), the chunks from position i on
RECURSIVE ByteArrayFrom(_, _)
ByteArrayFrom(padded, i) ==
    IF i >= Len(padded) THEN <<>>
    ELSE <<IntBase2(Take(Drop(padded, i), 8))>> \o ByteArrayFrom(padded, i + 8)

get_byte_array(padded) == ByteArrayFrom(padded, 0)

\* bin(n)
Bin(n) == <<"0", "b">> \o Binary(n)

\* s.rjust(width, fill)
RJust(s, width, fill) == Repeat(fill, width - Len(s)) \o s

\* decompress, line 194: the characters one byte contributes
BitsOfByte(byte) == RJust(Bin(byte), 8, "0")

\* decompress, lines 189-196: the string built from the bytes read
RECURSIVE BitStringUpTo(_, _)
BitStringUpTo(bytes, k) ==
    IF k = 0 THEN <<>> ELSE BitStringUpTo(bytes, k - 1) \o BitsOfByte(bytes[k])

ReadBitString(bytes) == BitStringUpTo(bytes, Len(bytes))

\* whether int(s, 2) accepts s: binary digits, with an optional 0b prefix
IsBase2(s) ==
    LET digits == IF Len(s) >= 2 /\ s[1] = "0" /\ s[2] = "b" THEN Drop(s, 2) ELSE s
    IN  /\ digits /= <<>>
        /\ \A i \in 1..Len(digits) : digits[i] \in Bits

\* int(s, 2) for a string it accepts
ParseBase2(s) ==
    IF Len(s) >= 2 /\ s[1] = "0" /\ s[2] = "b" THEN IntBase2(Drop(s, 2)) ELSE IntBase2(s)

\* Python's s[:stop], where a negative stop counts from the end
SliceTo(s, stop) ==
    IF stop < 0
    THEN Take(s, IF Len(s) + stop > 0 THEN Len(s) + stop ELSE 0)
    ELSE Take(s, stop)

\* remove_padding, line 165: the stop of the slice
PaddingStop(extra_padding) == -1 * extra_padding

\* remove_padding(bit_string), when int accepts the header
remove_padding(bs) == SliceTo(Drop(bs, 8), PaddingStop(ParseBase2(Take(bs, 8))))

\* decode_text, lines 175-179: the loop body on one bit
DecodeBit(rm, st, bit) ==
    LET cur == st.current_code \o <<bit>>
    IN  IF cur \in DOMAIN rm
        THEN [decoded_text |-> st.decoded_text \o <<rm[cur]>>, current_code |-> <<>>,
              consumed |-> st.consumed + 1]
        ELSE [decoded_text |-> st.decoded_text, current_code |-> cur,
              consumed |-> st.consumed + 1]

\* decode_text: the loop from bit i on; line 181 returns inside the loop body
DecodeFrom(rm, enc, i, st) ==
    IF i > Len(enc)
    THEN [decoded_text |-> NoneText, current_code |-> st.current_code,
          consumed |-> st.consumed]
    ELSE DecodeBit(rm, st, enc[i])

\* decode_text(encoded_text) with self.reverse_mapping = rm
decode_text(rm, enc) ==
    DecodeFrom(rm, enc, 1, [decoded_text |-> <<>>, current_code |-> <<>>, consumed |-> 0])

\* ------------------------------------------------------------------ Init
\* a HuffmanCoding object as __init__ leaves it, nothing run yet
IdleObject ==
    /\ error = "none"
    /\ output = [exists |-> FALSE, bytes |-> <<>>]
    /\ text = <<>>
    /\ frequency = <<>>
    /\ nodes = <<>>
    /\ heap = <<>>
    /\ stack = <<>>
    /\ visits = <<>>

\* no code made yet
NoCodes ==
    /\ codes = EmptyDict
    /\ reverse_mapping = EmptyDict

\* no result of the codec's methods yet
NoResults ==
    /\ padded_encoded_text = <<>>
    /\ b = <<>>
    /\ decoded_text = <<>>
    /\ current_code = <<>>
    /\ consumed = 0

\* HuffmanCoding(path) constructed, compress() about to run on the file
Init ==
    /\ pc = "compress"
    /\ file_text \in SeqsBetween(Chars, 0, MaxLen)
    /\ IdleObject
    /\ NoCodes
    /\ encoded_text = <<>>
    /\ bit_string = <<>>
    /\ NoResults

\* compress, lines 137-142: the output is opened 'wb' (created empty), the
\* input is read and stripped
OpenAndRead ==
    /\ pc = "compress"
    /\ output' = [exists |-> TRUE, bytes |-> <<>>]
    /\ text' = RStrip(file_text)
    /\ pc' = "make_frequency_dict"
    /\ UNCHANGED <<error, file_text, frequency, nodes, heap, codes,
                   reverse_mapping, stack, visits>>
    /\ UNCHANGED codecVars

\* compress, line 144
MakeFrequencyDict ==
    /\ pc = "make_frequency_dict"
    /\ frequency' = make_frequency_dict(text)
    /\ pc' = "make_heap"
    /\ UNCHANGED <<error, file_text, output, text, nodes, heap, codes,
                   reverse_mapping, stack, visits>>
    /\ UNCHANGED codecVars

\* make_heap: one iteration of its loop (the keys in dict order)
MakeHeapStep ==
    /\ pc = "make_heap"
    /\ Len(nodes) < Len(frequency)
    /\ LET key == frequency[Len(nodes) + 1]
           ns == Append(nodes, HeapNode(key.ch, key.n))
       IN  /\ nodes' = ns
           /\ heap' = HeapPush(ns, heap, Len(ns))
    /\ UNCHANGED <<pc, error, file_text, output, text, frequency, codes,
                   reverse_mapping, stack, visits>>
    /\ UNCHANGED codecVars

\* make_heap returns
MakeHeapDone ==
    /\ pc = "make_heap"
    /\ Len(nodes) = Len(frequency)
    /\ pc' = "merge_codes"
    /\ UNCHANGED <<error>>
    /\ UNCHANGED compressVars
    /\ UNCHANGED codecVars

\* merge_codes with the merged frequency taken from the first node alone
MergedFirstOnly(ns, node1, node2) ==
    [HeapNode(NoChar, ns[node1].freq) EXCEPT !.left = node1, !.right = node2]

\* the node merge_codes builds from the two popped ones
Merged(ns, node1, node2) ==
    [HeapNode(NoChar, ns[node1].freq + ns[node2].freq)
        EXCEPT !.left = node1, !.right = node2]

\* merge_codes: one iteration of its loop
MergeStep ==
    /\ pc = "merge_codes"
    /\ Len(heap) > 1
    /\ LET p1 == HeapPop(nodes, heap)
           p2 == HeapPop(nodes, p1.heap)
           ns == Append(nodes, Merged(nodes, p1.item, p2.item))
       IN  /\ nodes' = ns
           /\ heap' = HeapPush(ns, p2.heap, Len(ns))
    /\ UNCHANGED <<pc, error, file_text, output, text, frequency, codes,
                   reverse_mapping, stack, visits>>
    /\ UNCHANGED codecVars

\* merge_codes returns
MergeDone ==
    /\ pc = "merge_codes"
    /\ Len(heap) <= 1
    /\ pc' = "make_codes"
    /\ UNCHANGED <<error>>
    /\ UNCHANGED compressVars
    /\ UNCHANGED codecVars

\* make_codes, lines 104-106: pop the root and call the helper on it; the
\* pop of an empty heap raises IndexError
MakeCodes ==
    /\ pc = "make_codes"
    /\ IF heap = <<>>
       THEN /\ pc' = "raised"
            /\ error' = "IndexError"
            /\ UNCHANGED <<heap, stack, visits>>
       ELSE LET p == HeapPop(nodes, heap)
            IN  /\ heap' = p.heap
                /\ stack' = <<[node |-> p.item, current_code |-> <<>>, at |-> "entry"]>>
                /\ visits' = [i \in 1..Len(nodes) |-> 0]
                /\ pc' = "make_codes_helper"
                /\ UNCHANGED error
    /\ UNCHANGED <<file_text, output, text, frequency, nodes, codes, reverse_mapping>>
    /\ UNCHANGED codecVars

\* the node make_codes_helper passes on line 100
SecondCallNode(ns, node) == node

\* a call of make_codes_helper from the innermost frame, which moves to `at`:
\* a new frame, or RecursionError at the recursion limit
Call(node, code, at) ==
    IF Len(stack) >= RecursionLimit
    THEN /\ pc' = "raised"
         /\ error' = "RecursionError"
         /\ UNCHANGED <<stack, output>>
    ELSE /\ stack' = Append([stack EXCEPT ![Len(stack)].at = at],
                            [node |-> node, current_code |-> code, at |-> "entry"])
         /\ UNCHANGED <<pc, error, output>>

\* a return of make_codes_helper; when the outermost call returns, make_codes
\* returns and compress runs on to its end (lines 150-157)
Return ==
    /\ stack' = SubSeq(stack, 1, Len(stack) - 1)
    /\ IF Len(stack) = 1
       THEN /\ pc' = "compressed"
            /\ output' = [exists |-> TRUE, bytes |->
                    get_byte_array(pad_encoded_text(get_encoded_text(codes, text)))]
       ELSE UNCHANGED <<pc, output>>
    /\ UNCHANGED error

\* make_codes_helper: the innermost frame runs up to its next call or return
HelperStep ==
    /\ pc = "make_codes_helper"
    /\ LET f == stack[Len(stack)]
       IN  IF f.at = "entry"
           THEN IF f.node = None
                THEN /\ Return
                     /\ UNCHANGED <<codes, reverse_mapping, visits>>
                ELSE /\ visits' = [visits EXCEPT ![f.node] = @ + 1]
                     /\ IF Len(stack) >= RecursionLimit
                        THEN \* line 92 calls HeapNode.__eq__, one frame too many
                             /\ pc' = "raised"
                             /\ error' = "RecursionError"
                             /\ UNCHANGED <<stack, output, codes, reverse_mapping>>
                        ELSE /\ IF nodes[f.node].char /= NoChar
                                THEN /\ codes' = DictSet(codes, nodes[f.node].char, f.current_code)
                                     /\ reverse_mapping' =
                                            DictSet(reverse_mapping, f.current_code,
                                                    nodes[f.node].char)
                                ELSE UNCHANGED <<codes, reverse_mapping>>
                             /\ Call(nodes[f.node].left, f.current_code \o <<"0">>, "left")
           ELSE IF f.at = "left"
                THEN /\ Call(SecondCallNode(nodes, f.node), f.current_code \o <<"1">>, "right")
                     /\ UNCHANGED <<codes, reverse_mapping, visits>>
                ELSE /\ Return
                     /\ UNCHANGED <<codes, reverse_mapping, visits>>
    /\ UNCHANGED <<file_text, text, frequency, nodes, heap>>
    /\ UNCHANGED codecVars

Next ==
    \/ OpenAndRead
    \/ MakeFrequencyDict
    \/ MakeHeapStep
    \/ MakeHeapDone
    \/ MergeStep
    \/ MergeDone
    \/ MakeCodes
    \/ HelperStep

Spec == Init /\ [][Next]_vars

\* ------------------------------------------------ the codec on its own
\* pad_encoded_text on any encoded bit string, then the bytes written and
\* read back
InitPad ==
    /\ pc = "pad_encoded_text"
    /\ file_text = <<>>
    /\ IdleObject
    /\ NoCodes
    /\ encoded_text \in SeqsBetween(Bits, 0, MaxBits)
    /\ bit_string = <<>>
    /\ NoResults

\* compress, line 151
PadEncodedText ==
    /\ pc = "pad_encoded_text"
    /\ padded_encoded_text' = pad_encoded_text(encoded_text)
    /\ pc' = "get_byte_array"
    /\ UNCHANGED <<error, encoded_text, b, bit_string, decoded_text, current_code, consumed>>
    /\ UNCHANGED compressVars

\* compress, line 153
GetByteArray ==
    /\ pc = "get_byte_array"
    /\ b' = get_byte_array(padded_encoded_text)
    /\ pc' = "read_bytes"
    /\ UNCHANGED <<error, encoded_text, padded_encoded_text, bit_string, decoded_text,
                   current_code, consumed>>
    /\ UNCHANGED compressVars

\* decompress, lines 189-196, on the bytes written
ReadBytes ==
    /\ pc = "read_bytes"
    /\ bit_string' = ReadBitString(b)
    /\ pc' = "remove_padding"
    /\ UNCHANGED <<error, encoded_text, padded_encoded_text, b, decoded_text,
                   current_code, consumed>>
    /\ UNCHANGED compressVars

\* decompress, line 198: remove_padding; int raises ValueError on a header
\* that is no binary number
RemovePadding ==
    /\ pc = "remove_padding"
    /\ IF IsBase2(Take(bit_string, 8))
       THEN /\ encoded_text' = remove_padding(bit_string)
            /\ pc' = "decode_text"
            /\ UNCHANGED error
       ELSE /\ pc' = "raised"
            /\ error' = "ValueError"
            /\ UNCHANGED encoded_text
    /\ UNCHANGED <<padded_encoded_text, b, bit_string, decoded_text, current_code, consumed>>
    /\ UNCHANGED compressVars

\* decompress, line 199
DecodeText ==
    /\ pc = "decode_text"
    /\ LET r == decode_text(reverse_mapping, encoded_text)
       IN  /\ decoded_text' = r.decoded_text
           /\ current_code' = r.current_code
           /\ consumed' = r.consumed
    /\ pc' = "decoded"
    /\ UNCHANGED <<error, encoded_text, padded_encoded_text, b, bit_string>>
    /\ UNCHANGED compressVars

NextPad ==
    \/ PadEncodedText
    \/ GetByteArray
    \/ ReadBytes
    \/ RemovePadding

SpecPad == InitPad /\ [][NextPad]_vars


\* remove_padding and decode_text on any header and body, with any
\* prefix-free code table of the letters
IsPrefix(x, y) == Len(x) <= Len(y) /\ SubSeq(y, 1, Len(x)) = x

CodeTables ==
    {cs \in [Letters -> SeqsBetween(Bits, 1, MaxCode)] :
        \A x, y \in Letters : x /= y => ~IsPrefix(cs[x], cs[y])}

\* the reverse mapping of a code table
Inverse(cs) ==
    [w \in {cs[x] : x \in DOMAIN cs} |-> CHOOSE x \in DOMAIN cs : cs[x] = w]

\* the padding counts the 8-bit header is given
Headers == {Format08b(p) : p \in 0..8}

InitDecode ==
    /\ pc = "remove_padding"
    /\ file_text = <<>>
    /\ IdleObject
    /\ codes \in CodeTables
    /\ reverse_mapping = Inverse(codes)
    /\ encoded_text = <<>>
    /\ bit_string \in {h \o body : h \in Headers, body \in SeqsBetween(Bits, 0, MaxBody)}
    /\ NoResults

NextDecode ==
    \/ RemovePadding
    \/ DecodeText

SpecDecode == InitDecode /\ [][NextDecode]_vars


\* ================================================================ claims
\* the calls compress makes have ended, normally or by an exception
Ended == pc \in {"compressed", "raised"}

\* occurrences of ch in t
CountIn(t, ch) == Cardinality({k \in 1..Len(t) : t[k] = ch})

RECURSIVE SumCounts(_, _)
SumCounts(freq, k) == IF k = 0 THEN 0 ELSE SumCounts(freq, k - 1) + freq[k].n

\* the keys of the frequency dict
Keys(freq) == {freq[i].ch : i \in 1..Len(freq)}

\* what decompress makes of the bytes of a file, with the tables of the same object
Decompressed(bytes) ==
    IF IsBase2(Take(ReadBitString(bytes), 8))
    THEN decode_text(reverse_mapping, remove_padding(ReadBitString(bytes))).decoded_text
    ELSE NoneText

\* C1: round trip. When compress has ended on a non-empty text, it ended
\* without an exception and decompressing the bytes it wrote returns the text.
C1_RoundTrip ==
    (Ended /\ text /= <<>>) =>
        /\ error = "none"
        /\ Decompressed(output.bytes) = text

\* C2: prefix-freedom. After make_heap, merge_codes and make_codes on a
\* frequency table of at least two symbols, codes holds one code for every
\* symbol of the table and no code is a prefix of another symbol's code.
C2_PrefixFree ==
    (Ended /\ Len(frequency) >= 2) =>
        /\ DOMAIN codes = Keys(frequency)
        /\ \A x, y \in DOMAIN codes : x /= y => ~IsPrefix(codes[x], codes[y])

\* C3: padding correctness. For an encoded bit string of length L the header
\* value p satisfies (L + p) mod 8 = 0 and 0 <= p <= 7, exactly p zero bits
\* are appended, and p is 0 when L is a multiple of 8.
C3_PaddingCorrect ==
    pc = "get_byte_array" =>
        LET L == Len(encoded_text)
            p == IntBase2(Take(padded_encoded_text, 8))
        IN  /\ (L + p) % 8 = 0
            /\ 0 <= p /\ p <= 7
            /\ padded_encoded_text = Take(padded_encoded_text, 8) \o encoded_text \o Repeat("0", p)
            /\ (L % 8 = 0 => p = 0)

\* C4: empty input rejection. Compressing an empty text ends with the error
\* EmptyInput, raised before any pop of the empty heap, and leaves no output
\* file behind.
C4_EmptyInputRejected ==
    (Ended /\ text = <<>>) =>
        /\ error = "EmptyInput"
        /\ ~output.exists

\* C5: single symbol. For a text of one repeated symbol the tree is a single
\* leaf, the code table has exactly one entry, that entry is "0", and the text
\* round-trips.
C5_SingleSymbol ==
    (Ended /\ Len(frequency) = 1) =>
        /\ Len(nodes) = 1
        /\ DOMAIN codes = Keys(frequency)
        /\ codes[frequency[1].ch] = <<"0">>
        /\ error = "none"
        /\ Decompressed(output.bytes) = text

\* C6: byte format round trip. The bit string decompress rebuilds from the
\* bytes get_byte_array wrote for a padded bit string (a multiple of 8 bits)
\* is that padded bit string.
C6_BytesRoundTrip ==
    (pc = "remove_padding" /\ Len(padded_encoded_text) % 8 = 0) =>
        bit_string = padded_encoded_text

\* the root-to-node path of node n in the tree below node r, with 0 for left
\* and 1 for right; <<"none">> when n is not below r
RECURSIVE PathTo(_, _, _)
PathTo(ns, r, n) ==
    IF r = None THEN <<"none">>
    ELSE IF r = n THEN <<>>
    ELSE LET l == PathTo(ns, ns[r].left, n)
             rt == PathTo(ns, ns[r].right, n)
         IN  IF l /= <<"none">> THEN <<"0">> \o l
             ELSE IF rt /= <<"none">> THEN <<"1">> \o rt
             ELSE <<"none">>

\* C7: code generation terminates. For a tree built by merge_codes, make_codes
\* returns, no node is entered twice, every node has been entered once when it
\* returns, and each leaf's code is its root-to-leaf path.
C7_MakeCodesTerminates ==
    /\ \A i \in DOMAIN visits : visits[i] <= 1
    /\ (Ended /\ Len(nodes) >= 1) =>
           /\ error = "none"
           /\ \A i \in DOMAIN visits : visits[i] = 1
           /\ \A i \in 1..Len(nodes) :
                 nodes[i].char /= NoChar =>
                     /\ nodes[i].char \in DOMAIN codes
                     /\ codes[nodes[i].char] = PathTo(nodes, Len(nodes), i)

\* the decoder as section 4.5 of the specification describes it: every bit
\* appended to the accumulator, a symbol emitted and the accumulator cleared
\* on a match
RECURSIVE WalkFrom(_, _, _, _)
WalkFrom(rm, enc, i, st) ==
    IF i > Len(enc) THEN st ELSE WalkFrom(rm, enc, i + 1, DecodeBit(rm, st, enc[i]))

Walk(rm, enc) ==
    WalkFrom(rm, enc, 1, [decoded_text |-> <<>>, current_code |-> <<>>, consumed |-> 0])

\* C8: decoder completion. decode_text returns only after every bit of its
\* (non-empty) input was appended to the accumulator; on a bit sequence the encoder
\* produced with the same table the accumulator is then empty and as many
\* symbols were emitted as were encoded.
C8_DecoderCompletes ==
    (pc = "decoded" /\ encoded_text /= <<>>) =>
        /\ consumed = Len(encoded_text)
        /\ Walk(reverse_mapping, encoded_text).current_code = <<>> =>
              /\ current_code = <<>>
              /\ Len(decoded_text) = Len(Walk(reverse_mapping, encoded_text).decoded_text)

\* C9: frequency conservation. The counts of make_frequency_dict sum to the
\* length of the text, with one entry per occurring symbol equal to its number
\* of occurrences; every internal node's frequency is the sum of its
\* children's and every leaf's is its symbol's count; after merge_codes on a
\* non-empty text the heap holds one node, whose frequency is the length of
\* the text.
C9_FrequencyConservation ==
    /\ pc \notin {"compress", "make_frequency_dict"} =>
          /\ SumCounts(frequency, Len(frequency)) = Len(text)
          /\ Keys(frequency) = {text[k] : k \in 1..Len(text)}
          /\ Cardinality(Keys(frequency)) = Len(frequency)
          /\ \A i \in 1..Len(frequency) : frequency[i].n = CountIn(text, frequency[i].ch)
    /\ \A i \in 1..Len(nodes) :
          IF nodes[i].char = NoChar
          THEN /\ nodes[i].left /= None
               /\ nodes[i].right /= None
               /\ nodes[i].freq = nodes[nodes[i].left].freq + nodes[nodes[i].right].freq
          ELSE /\ nodes[i].left = None
               /\ nodes[i].right = None
               /\ nodes[i].freq = CountIn(text, nodes[i].char)
    /\ (pc = "make_codes" /\ text /= <<>>) =>
          /\ Len(heap) = 1
          /\ nodes[heap[1]].freq = Len(text)

\* a text of three distinct symbols has been counted and merged into one tree
C9_Witness ==
    /\ pc = "make_codes"
    /\ Len(frequency) = 3
    /\ Len(nodes) = 5
    /\ Len(heap) = 1

\* C10: padding removal. For an 8-bit header encoding p, 0 <= p <= 7, and a
\* body of at least p bits, remove_padding returns the body without its last
\* p bits: the whole body for p = 0.
C10_PaddingRemoved ==
    pc = "decode_text" =>
        LET p == IntBase2(Take(bit_string, 8))
            body == Drop(bit_string, 8)
        IN  (p <= 7 /\ Len(body) >= p) => encoded_text = Take(body, Len(body) - p)

====
